---- MODULE Spec2Model ----
(***************************************************************************)
(* Model of the sandbox driver of crux-judge                               *)
(* (src/server/contest/sandbox/sandbox.c): the parent controller           *)
(* sandboxExec, the child bootstrap childFunc, the two eventfd             *)
(* notification channels between them, and the contracts of the external   *)
(* collaborators (resource-limit installer, terminator, cgroup removal).   *)
(*                                                                         *)
(* The child is created by clone() without CLONE_VM and without            *)
(* CLONE_FILES: it has its own copy of the address space and of the fd     *)
(* table.  An eventfd is a kernel counter: read blocks while the counter   *)
(* is 0 and resets it, write adds to it; closing one process's copy of the *)
(* fd does not wake a reader that holds its own copy.                      *)
(***************************************************************************)
EXTENDS Integers, Sequences, FiniteSets, TLC

VARIABLES
  pPc,        \* position of the parent in sandboxExec
  outcome,    \* value returned by sandboxExec ("none" before it returns)
  pFds,       \* notification-channel fds open in the parent
  stackLive,  \* child_stack is allocated and not yet freed
  wstatus,    \* wait status filled in by waitpid
  evP,        \* counter of eventfd notify_p (child -> parent, "ready")
  evC,        \* counter of eventfd notify_c (parent -> child, "go")
  goSent,     \* the parent's write of the go token has succeeded
  exceeded,   \* the parent's local `exceeded`, shared with the installer
  limitsSet,  \* setResourceLimits has returned successfully
  cgDirs,     \* per-pid cgroup directories exist
  tpLive,     \* the TerminatePayload *tp is allocated and not yet freed
  tp,         \* fields of the terminator handle
  tPc,        \* state of the wall-clock terminator
  cPc,        \* position of the child in childFunc / the target program
  cStatus,    \* termination status of the child once it is dead
  cTrace,     \* the bootstrap steps the child has begun, in order
  failedStep, \* the bootstrap step that failed ("none" if none)
  cFds,       \* fds (other than 0 and 1) open in the child
  cStdio,     \* what fds 0 and 1 of the child refer to
  cCred       \* the child's confinement: root directory, gid, uid, filter

parentVars == <<pPc, outcome, pFds, stackLive, wstatus>>
chanVars   == <<evP, evC, goSent>>
limVars    == <<exceeded, limitsSet, cgDirs, tpLive, tp, tPc>>
childVars  == <<cPc, cStatus, cTrace, failedStep, cFds, cStdio, cCred>>
vars == <<pPc, outcome, pFds, stackLive, wstatus, evP, evC, goSent, exceeded,
          limitsSet, cgDirs, tpLive, tp, tPc, cPc, cStatus, cTrace,
          failedStep, cFds, cStdio, cCred>>

----------------------------------------------------------------------------
(* Bounds and program constants *)

\* The target program exits with a status in 0..MaxUserExit.
MaxUserExit == 3

\* Largest exit status fed to the classification when it is checked alone.
MaxClassifyExit == 7

EXIT_CHILD_FAILURE == 1

UserExitStatuses == 0..MaxUserExit

Signals == {"SIGTERM", "SIGKILL", "SIGSYS"}

\* Values of `exceeded` (enum of resource_limits.h); "OTHER" stands for any
\* int that is none of the five enumerators.
ExceededValues ==
  {"NO_EXCEED", "FATAL_ERROR_EXCEED", "MEM_LIM_EXCEED", "TIME_LIM_EXCEED",
   "TASK_LIM_EXCEED", "OTHER"}

Exited(s)   == [kind |-> "exited",   code |-> s, sig |-> "none"]
Signaled(g) == [kind |-> "signaled", code |-> 0, sig |-> g]
NoStatus    == [kind |-> "none",     code |-> 0, sig |-> "none"]

WIFEXITED(w)   == w.kind = "exited"
WIFSIGNALED(w) == w.kind = "signaled"
WEXITSTATUS(w) == w.code

----------------------------------------------------------------------------
(* Initial state: sandboxExec has been called, nothing has run yet *)

Init ==
  /\ pPc = "entry"
  /\ outcome = "none"
  /\ pFds = {}
  /\ stackLive = FALSE
  /\ wstatus = NoStatus
  /\ evP = 0
  /\ evC = 0
  /\ goSent = FALSE
  /\ exceeded = "undeclared"
  /\ limitsSet = FALSE
  /\ cgDirs = FALSE
  /\ tpLive = FALSE
  /\ tp = [terminated |-> 0, once |-> 0, done |-> 0, skip |-> "unset"]
  /\ tPc = "unarmed"
  /\ cPc = "notStarted"
  /\ cStatus = NoStatus
  /\ cTrace = <<>>
  /\ failedStep = "none"
  /\ cFds = {}
  /\ cStdio = [in |-> "inherited", out |-> "inherited"]
  /\ cCred = [root |-> "host", cwd |-> "host", gid |-> "privileged",
              uid |-> "privileged", filter |-> FALSE]

----------------------------------------------------------------------------
(* The child process as seen from outside *)

ChildAlive == cPc \notin {"notStarted", "dead"}

\* The child process terminates with wait status st: the kernel closes all
\* its fds.
ChildDies(st) ==
  /\ cPc' = "dead"
  /\ cStatus' = st
  /\ cFds' = {}
  /\ UNCHANGED <<cTrace, failedStep, cStdio, cCred>>

\* kill(pid, SIGTERM) by the parent.  The child is the init process of a new
\* PID namespace and installs no handler, so the signal may be dropped; the
\* child may also be dead already; kill's result is only logged.
KillSigterm ==
  \/ ChildAlive /\ ChildDies(Signaled("SIGTERM"))
  \/ UNCHANGED childVars

\* SIGKILL cannot be ignored: a live child dies, a dead one is unaffected.
KillSigkill ==
  IF ChildAlive THEN ChildDies(Signaled("SIGKILL")) ELSE UNCHANGED childVars

----------------------------------------------------------------------------
(* Parent controller: sandboxExec *)

\* sandboxExecFailCleanup: free(child_stack), close both channel fds.
sandboxExecFailCleanup ==
  /\ stackLive' = FALSE
  /\ pFds' = {}

ReturnFailure ==
  /\ pPc' = "returned"
  /\ outcome' = "SB_FAILURE"

\* Lines 168-181: two eventfds, malloc of the child stack.  When malloc
\* fails the function returns at once.
PEntry ==
  /\ pPc = "entry"
  /\ pFds' = {"notify_p", "notify_c"}
  /\ \/ /\ stackLive' = TRUE
        /\ pPc' = "clone"
        /\ UNCHANGED outcome
     \/ /\ stackLive' = FALSE
        /\ ReturnFailure
  /\ UNCHANGED <<wstatus, chanVars, limVars, childVars>>

\* Lines 182-206: fill the payload and clone the child.  The child starts
\* with a copy of the parent's fd table.
PClone ==
  /\ pPc = "clone"
  /\ \/ /\ pPc' = "readReady"
        /\ cPc' = "openIn"
        /\ cFds' = {"notify_p", "notify_c"}
        /\ UNCHANGED <<outcome, pFds, stackLive, cStatus, cTrace,
                       failedStep, cStdio, cCred>>
     \/ /\ sandboxExecFailCleanup
        /\ ReturnFailure
        /\ UNCHANGED childVars
  /\ UNCHANGED <<wstatus, chanVars, limVars>>

\* Lines 209-211: read(notify_p) returns once the counter is non-zero.
PReadReady ==
  /\ pPc = "readReady"
  /\ evP > 0
  /\ evP' = 0
  /\ pPc' = "setLimits"
  /\ UNCHANGED <<outcome, pFds, stackLive, wstatus, evC, goSent, limVars,
                 childVars>>

\* Lines 211-221: read(notify_p) returns -1.
PReadReadyFail ==
  /\ pPc = "readReady"
  /\ KillSigterm
  /\ sandboxExecFailCleanup
  /\ ReturnFailure
  /\ UNCHANGED <<wstatus, chanVars, limVars>>

----------------------------------------------------------------------------
(* External collaborators, by their contracts *)

\* setResourceLimits succeeds: per-pid cgroup directories exist, the handle
\* is allocated and handed to the caller, the wall-clock terminator is armed.
setResourceLimitsOk ==
  /\ limitsSet' = TRUE
  /\ cgDirs' = TRUE
  /\ tpLive' = TRUE
  /\ tp' = [terminated |-> 0, once |-> 0, done |-> 0, skip |-> "unset"]
  /\ tPc' = "armed"

\* setResourceLimits fails: it returns -1 having armed nothing and left
\* nothing behind; a fatal failure may set the caller's exceeded (NO_EXCEED
\* since line 222) to FATAL_ERROR_EXCEED.
setResourceLimitsFail ==
  /\ exceeded' \in {"NO_EXCEED", "FATAL_ERROR_EXCEED"}
  /\ UNCHANGED <<limitsSet, cgDirs, tpLive, tp, tPc>>

\* removePidDirs: the per-pid cgroup directories are removed.
removePidDirs ==
  cgDirs' = FALSE

\* terminate(tp) called by the parent as the cancel entry: a terminator that
\* has not fired is cancelled; for one that has fired, cancellation
\* degenerates to waiting until it has set done.
terminateCancel ==
  /\ tPc # "fired"
  /\ tPc' = IF tPc = "armed" THEN "cancelled" ELSE tPc

----------------------------------------------------------------------------
(* Parent controller, continued *)

\* Lines 222-225 with success of the installer.
PSetLimits ==
  /\ pPc = "setLimits"
  /\ exceeded' = "NO_EXCEED"
  /\ setResourceLimitsOk
  /\ pPc' = "writeGo"
  /\ UNCHANGED <<outcome, pFds, stackLive, wstatus, chanVars, childVars>>

\* Lines 222-237 with failure of the installer.
PSetLimitsFail ==
  /\ pPc = "setLimits"
  /\ setResourceLimitsFail
  /\ KillSigterm
  /\ sandboxExecFailCleanup
  /\ ReturnFailure
  /\ UNCHANGED <<wstatus, chanVars>>

\* Lines 238-240: write(notify_c) adds 1 to the counter.
PWriteGo ==
  /\ pPc = "writeGo"
  /\ evC' = evC + 1
  /\ goSent' = TRUE
  /\ pPc' = "closeFds"
  /\ UNCHANGED <<outcome, pFds, stackLive, wstatus, evP, limVars, childVars>>

\* Lines 240-256: write(notify_c) returns -1.  The child is signalled, the
\* cgroup directories are removed, stack and fds are released.  tp is neither
\* cancelled nor freed on this path.
PWriteGoFail ==
  /\ pPc = "writeGo"
  /\ KillSigterm
  /\ removePidDirs
  /\ sandboxExecFailCleanup
  /\ ReturnFailure
  /\ UNCHANGED <<wstatus, chanVars, exceeded, limitsSet, tpLive, tp, tPc>>

\* Closing the channel and going on without waitpid.
PCloseFdsSkipsWait ==
  /\ pPc = "closeFds"
  /\ pFds' = {}
  /\ pPc' = "setTerminated"
  /\ UNCHANGED <<outcome, stackLive, wstatus, chanVars, limVars, childVars>>

\* Closing the channel and storing terminated = 1 before waitpid.
PCloseFdsPublishesTerminated ==
  /\ pPc = "closeFds"
  /\ pFds' = {}
  /\ tp' = [tp EXCEPT !.terminated = 1]
  /\ pPc' = "waitpid"
  /\ UNCHANGED <<outcome, stackLive, wstatus, chanVars, exceeded, limitsSet,
                 cgDirs, tpLive, tPc, childVars>>

\* Lines 257-262: close both channel ends (a failure is only logged).
PCloseFds ==
  /\ pPc = "closeFds"
  /\ pFds' = {}
  /\ pPc' = "waitpid"
  /\ UNCHANGED <<outcome, stackLive, wstatus, chanVars, limVars, childVars>>

\* A waitpid that does not block (WNOHANG): while the child runs, wstatus
\* keeps whatever the stack slot held.
PWaitpidNoHang ==
  /\ pPc = "waitpid"
  /\ IF cPc = "dead"
       THEN wstatus' = cStatus
       ELSE wstatus' \in {Exited(0), Signaled("SIGSYS")}
  /\ pPc' = "setTerminated"
  /\ UNCHANGED <<outcome, pFds, stackLive, chanVars, limVars, childVars>>

\* Lines 265-266: waitpid(pid, &wstatus, 0) returns when the child is dead.
PWaitpid ==
  /\ pPc = "waitpid"
  /\ cPc = "dead"
  /\ wstatus' = cStatus
  /\ pPc' = "setTerminated"
  /\ UNCHANGED <<outcome, pFds, stackLive, chanVars, limVars, childVars>>

\* Line 268 left out: terminated is never published.
PSetTerminatedOmitted ==
  /\ pPc = "setTerminated"
  /\ pPc' = "freeRes"
  /\ UNCHANGED <<outcome, pFds, stackLive, wstatus, chanVars, limVars,
                 childVars>>

\* Line 268: tp -> terminated = 1.
PSetTerminated ==
  /\ pPc = "setTerminated"
  /\ tp' = [tp EXCEPT !.terminated = 1]
  /\ pPc' = "freeRes"
  /\ UNCHANGED <<outcome, pFds, stackLive, wstatus, chanVars, exceeded,
                 limitsSet, cgDirs, tpLive, tPc, childVars>>

\* Lines 270-274: free(child_stack); if (ctx != NULL) seccomp_release(ctx).
\* The parent's `ctx` is never written in the parent (the child filled in its
\* own copy of the address space), so the test reads an indeterminate
\* pointer: it may be NULL, or garbage that seccomp_release rejects, or
\* garbage whose dereference kills the parent.
PFreeRes ==
  /\ pPc = "freeRes"
  /\ stackLive' = FALSE
  /\ \E ctx \in {"null", "rejected", "fault"} :
       pPc' = IF ctx = "fault" THEN "crashed" ELSE "readOnce"
  /\ UNCHANGED <<outcome, pFds, wstatus, chanVars, limVars, childVars>>

\* Line 276: if (tp -> once == 1).
PReadOnce ==
  /\ pPc = "readOnce"
  /\ pPc' = IF tp.once = 1 THEN "spin" ELSE "cancel"
  /\ UNCHANGED <<outcome, pFds, stackLive, wstatus, chanVars, limVars,
                 childVars>>

\* Line 279 left out: the parent does not wait for done.
PSpinNoWait ==
  /\ pPc = "spin"
  /\ pPc' = "freeTp"
  /\ UNCHANGED <<outcome, pFds, stackLive, wstatus, chanVars, limVars,
                 childVars>>

\* Line 279: while (tp -> done == 0);
PSpin ==
  /\ pPc = "spin"
  /\ tp.done # 0
  /\ pPc' = "freeTp"
  /\ UNCHANGED <<outcome, pFds, stackLive, wstatus, chanVars, limVars,
                 childVars>>

\* Lines 281-285: tp -> skip = NULL; terminate(tp).
PCancel ==
  /\ pPc = "cancel"
  /\ tp' = [tp EXCEPT !.skip = "NULL"]
  /\ terminateCancel
  /\ pPc' = "freeTp"
  /\ UNCHANGED <<outcome, pFds, stackLive, wstatus, chanVars, exceeded,
                 limitsSet, cgDirs, tpLive, childVars>>

\* Line 287: free(tp).
PFreeTp ==
  /\ pPc = "freeTp"
  /\ tpLive' = FALSE
  /\ pPc' = "classify"
  /\ UNCHANGED <<outcome, pFds, stackLive, wstatus, chanVars, exceeded,
                 limitsSet, cgDirs, tp, tPc, childVars>>

\* A switch that looks at WIFSIGNALED before it looks at `exceeded`.
ExceededSwitchSignalFirst(w, e) ==
  IF WIFSIGNALED(w) THEN "SB_RUNTIME_ERR"
  ELSE CASE e = "NO_EXCEED"          -> "SB_OK"
         [] e = "FATAL_ERROR_EXCEED" -> "SB_FAILURE"
         [] e = "MEM_LIM_EXCEED"     -> "SB_MEM_EXCEED"
         [] e = "TIME_LIM_EXCEED"    -> "SB_TIME_EXCEED"
         [] e = "TASK_LIM_EXCEED"    -> "SB_TASK_EXCEED"
         [] OTHER                    -> "SB_FAILURE"

\* Lines 311-345: the switch on `exceeded`.
ExceededSwitch(w, e) ==
  CASE e = "NO_EXCEED" ->
         IF WIFSIGNALED(w) THEN "SB_RUNTIME_ERR" ELSE "SB_OK"
    [] e = "FATAL_ERROR_EXCEED" -> "SB_FAILURE"
    [] e = "MEM_LIM_EXCEED"     -> "SB_MEM_EXCEED"
    [] e = "TIME_LIM_EXCEED"    -> "SB_TIME_EXCEED"
    [] e = "TASK_LIM_EXCEED"    -> "SB_TASK_EXCEED"
    [] OTHER                    -> "SB_FAILURE"

\* Classification without the test for the setup-failure status (l.297).
ClassifyNoSentinel(w, e) ==
  IF WIFEXITED(w) \/ WIFSIGNALED(w)
    THEN ExceededSwitch(w, e)
    ELSE "SB_FAILURE"

\* Lines 293-345: the value sandboxExec returns for wait status w and
\* exceeded value e.
Classify(w, e) ==
  IF WIFEXITED(w)
    THEN IF WEXITSTATUS(w) = EXIT_CHILD_FAILURE
           THEN "SB_FAILURE"
           ELSE ExceededSwitch(w, e)
    ELSE IF WIFSIGNALED(w)
           THEN ExceededSwitch(w, e)
           ELSE "SB_FAILURE"

PClassify ==
  /\ pPc = "classify"
  /\ outcome' = Classify(wstatus, exceeded)
  /\ pPc' = "returned"
  /\ UNCHANGED <<pFds, stackLive, wstatus, chanVars, limVars, childVars>>

----------------------------------------------------------------------------
(* Child bootstrap: childFunc *)

\* A failed step: printErr, return EXIT_CHILD_FAILURE; the child process
\* exits with that status.
ChildReturnFailure(step) ==
  /\ cPc' = "dead"
  /\ cStatus' = Exited(EXIT_CHILD_FAILURE)
  /\ failedStep' = step
  /\ cFds' = {}

\* The child takes bootstrap step `step` at position `at`.
ChildBegins(at, step) ==
  /\ cPc = at
  /\ cTrace' = Append(cTrace, step)

\* Lines 42-46: open(input_file, O_RDONLY).
ChildOpenIn ==
  /\ ChildBegins("openIn", "openIn")
  /\ \/ /\ cFds' = cFds \cup {"in"}
        /\ cPc' = "openOut"
        /\ UNCHANGED <<cStatus, failedStep>>
     \/ ChildReturnFailure("openIn")
  /\ UNCHANGED <<cStdio, cCred, parentVars, chanVars, limVars>>

\* Lines 47-51: open(output_file, O_WRONLY | O_CREAT | O_TRUNC).
ChildOpenOut ==
  /\ ChildBegins("openOut", "openOut")
  /\ \/ /\ cFds' = cFds \cup {"out"}
        /\ cPc' = "dupIn"
        /\ UNCHANGED <<cStatus, failedStep>>
     \/ ChildReturnFailure("openOut")
  /\ UNCHANGED <<cStdio, cCred, parentVars, chanVars, limVars>>

\* Lines 53-56: dup2(in, STDIN_FILENO).
ChildDupIn ==
  /\ ChildBegins("dupIn", "dupIn")
  /\ \/ /\ cStdio' = [cStdio EXCEPT !.in = "input_file"]
        /\ cPc' = "dupOut"
        /\ UNCHANGED <<cStatus, failedStep, cFds>>
     \/ ChildReturnFailure("dupIn") /\ UNCHANGED cStdio
  /\ UNCHANGED <<cCred, parentVars, chanVars, limVars>>

\* Lines 57-60: dup2(out, STDOUT_FILENO).
ChildDupOut ==
  /\ ChildBegins("dupOut", "dupOut")
  /\ \/ /\ cStdio' = [cStdio EXCEPT !.out = "output_file"]
        /\ cPc' = "closeIn"
        /\ UNCHANGED <<cStatus, failedStep, cFds>>
     \/ ChildReturnFailure("dupOut") /\ UNCHANGED cStdio
  /\ UNCHANGED <<cCred, parentVars, chanVars, limVars>>

\* Lines 61-64: close(in).
ChildCloseIn ==
  /\ ChildBegins("closeIn", "closeIn")
  /\ \/ /\ cFds' = cFds \ {"in"}
        /\ cPc' = "closeOut"
        /\ UNCHANGED <<cStatus, failedStep>>
     \/ ChildReturnFailure("closeIn")
  /\ UNCHANGED <<cStdio, cCred, parentVars, chanVars, limVars>>

\* Lines 65-68: close(out).
ChildCloseOut ==
  /\ ChildBegins("closeOut", "closeOut")
  /\ \/ /\ cFds' = cFds \ {"out"}
        /\ cPc' = "writeReady"
        /\ UNCHANGED <<cStatus, failedStep>>
     \/ ChildReturnFailure("closeOut")
  /\ UNCHANGED <<cStdio, cCred, parentVars, chanVars, limVars>>

\* Lines 72-77: write(notify_p) adds 1 to the counter, or fails.
ChildWriteReady ==
  /\ ChildBegins("writeReady", "writeReady")
  /\ \/ /\ evP' = evP + 1
        /\ cPc' = "readGo"
        /\ UNCHANGED <<cStatus, failedStep, cFds>>
     \/ ChildReturnFailure("writeReady") /\ UNCHANGED evP
  /\ UNCHANGED <<cStdio, cCred, parentVars, evC, goSent, limVars>>

\* A read of notify_c that does not wait for the token.
ChildReadGoNoWait ==
  /\ ChildBegins("readGo", "readGo")
  /\ evC' = 0
  /\ cPc' = "closeC"
  /\ UNCHANGED <<cStatus, failedStep, cFds>>
  /\ UNCHANGED <<cStdio, cCred, parentVars, evP, goSent, limVars>>

\* A read of notify_c whose result is not tested (l.80 without the if).
ChildReadGoUnchecked ==
  /\ ChildBegins("readGo", "readGo")
  /\ \/ /\ evC > 0
        /\ evC' = 0
        /\ UNCHANGED failedStep
     \/ /\ failedStep' = "readGo"
        /\ UNCHANGED evC
  /\ cPc' = "closeC"
  /\ UNCHANGED <<cStatus, cFds>>
  /\ UNCHANGED <<cStdio, cCred, parentVars, evP, goSent, limVars>>

\* Lines 78-83: read(notify_c) returns once the counter is non-zero and
\* resets it, or fails.
ChildReadGo ==
  /\ ChildBegins("readGo", "readGo")
  /\ \/ /\ evC > 0
        /\ evC' = 0
        /\ cPc' = "closeC"
        /\ UNCHANGED <<cStatus, failedStep, cFds>>
     \/ ChildReturnFailure("readGo") /\ UNCHANGED evC
  /\ UNCHANGED <<cStdio, cCred, parentVars, evP, goSent, limVars>>

\* Lines 84-87: close(notify_c).
ChildCloseC ==
  /\ ChildBegins("closeC", "closeC")
  /\ \/ /\ cFds' = cFds \ {"notify_c"}
        /\ cPc' = "closeP"
        /\ UNCHANGED <<cStatus, failedStep>>
     \/ ChildReturnFailure("closeC")
  /\ UNCHANGED <<cStdio, cCred, parentVars, chanVars, limVars>>

\* A close(notify_p) whose result is not tested (l.88 without the if).
ChildClosePUnchecked ==
  /\ ChildBegins("closeP", "closeP")
  /\ \/ /\ cFds' = cFds \ {"notify_p"}
        /\ UNCHANGED failedStep
     \/ /\ failedStep' = "closeP"
        /\ UNCHANGED cFds
  /\ cPc' = "openWl"
  /\ UNCHANGED cStatus
  /\ UNCHANGED <<cStdio, cCred, parentVars, chanVars, limVars>>

\* Lines 88-91: close(notify_p).
ChildCloseP ==
  /\ ChildBegins("closeP", "closeP")
  /\ \/ /\ cFds' = cFds \ {"notify_p"}
        /\ cPc' = "openWl"
        /\ UNCHANGED <<cStatus, failedStep>>
     \/ ChildReturnFailure("closeP")
  /\ UNCHANGED <<cStdio, cCred, parentVars, chanVars, limVars>>

\* The whitelist is not opened here but left to the filter installer.
ChildOpenWlDeferred ==
  /\ cPc = "openWl"
  /\ cPc' = "chdir"
  /\ UNCHANGED <<cStatus, cTrace, failedStep, cFds>>
  /\ UNCHANGED <<cStdio, cCred, parentVars, chanVars, limVars>>

\* Lines 97-101: open(whitelist, O_RDONLY | O_CLOEXEC).
ChildOpenWl ==
  /\ ChildBegins("openWl", "openWl")
  /\ \/ /\ cFds' = cFds \cup {"whitelist"}
        /\ cPc' = "chdir"
        /\ UNCHANGED <<cStatus, failedStep>>
     \/ ChildReturnFailure("openWl")
  /\ UNCHANGED <<cStdio, cCred, parentVars, chanVars, limVars>>

\* Lines 104-107: chdir(jail_path).
ChildChdir ==
  /\ ChildBegins("chdir", "chdir")
  /\ \/ /\ cCred' = [cCred EXCEPT !.cwd = "jail"]
        /\ cPc' = "chroot"
        /\ UNCHANGED <<cStatus, failedStep, cFds>>
     \/ ChildReturnFailure("chdir") /\ UNCHANGED cCred
  /\ UNCHANGED <<cStdio, parentVars, chanVars, limVars>>

\* A chroot followed by setuid, with setgid left out.
ChildChrootSkipsSetgid ==
  /\ ChildBegins("chroot", "chroot")
  /\ \/ /\ cCred' = [cCred EXCEPT !.root = cCred.cwd]
        /\ cPc' = "setuid"
        /\ UNCHANGED <<cStatus, failedStep, cFds>>
     \/ ChildReturnFailure("chroot") /\ UNCHANGED cCred
  /\ UNCHANGED <<cStdio, parentVars, chanVars, limVars>>

\* A chroot whose result is not tested (l.108 without the if).
ChildChrootUnchecked ==
  /\ ChildBegins("chroot", "chroot")
  /\ \/ /\ cCred' = [cCred EXCEPT !.root = cCred.cwd]
        /\ UNCHANGED failedStep
     \/ /\ failedStep' = "chroot"
        /\ UNCHANGED cCred
  /\ cPc' = "setgid"
  /\ UNCHANGED <<cStatus, cFds>>
  /\ UNCHANGED <<cStdio, parentVars, chanVars, limVars>>

\* Lines 108-111: chroot("./") makes the current directory the root.
ChildChroot ==
  /\ ChildBegins("chroot", "chroot")
  /\ \/ /\ cCred' = [cCred EXCEPT !.root = cCred.cwd]
        /\ cPc' = "setgid"
        /\ UNCHANGED <<cStatus, failedStep, cFds>>
     \/ ChildReturnFailure("chroot") /\ UNCHANGED cCred
  /\ UNCHANGED <<cStdio, parentVars, chanVars, limVars>>

\* Lines 116-119: setgid(gid).
ChildSetgid ==
  /\ ChildBegins("setgid", "setgid")
  /\ \/ /\ cCred' = [cCred EXCEPT !.gid = "dropped"]
        /\ cPc' = "setuid"
        /\ UNCHANGED <<cStatus, failedStep, cFds>>
     \/ ChildReturnFailure("setgid") /\ UNCHANGED cCred
  /\ UNCHANGED <<cStdio, parentVars, chanVars, limVars>>

\* Lines 120-123: setuid(uid).
ChildSetuid ==
  /\ ChildBegins("setuid", "setuid")
  /\ \/ /\ cCred' = [cCred EXCEPT !.uid = "dropped"]
        /\ cPc' = "filter"
        /\ UNCHANGED <<cStatus, failedStep, cFds>>
     \/ ChildReturnFailure("setuid") /\ UNCHANGED cCred
  /\ UNCHANGED <<cStdio, parentVars, chanVars, limVars>>

\* installSysCallBlocker succeeds: the filter is applied to the child and
\* the whitelist fd is consumed and closed.
installSysCallBlockerOk ==
  /\ cCred' = [cCred EXCEPT !.filter = TRUE]
  /\ cFds' = cFds \ {"whitelist"}

\* Lines 127-129: installSysCallBlocker(ctx, whitelist_fd).
ChildFilter ==
  /\ ChildBegins("filter", "filter")
  /\ \/ /\ installSysCallBlockerOk
        /\ cPc' = "execl"
        /\ UNCHANGED <<cStatus, failedStep>>
     \/ ChildReturnFailure("filter") /\ UNCHANGED cCred
  /\ UNCHANGED <<cStdio, parentVars, chanVars, limVars>>

\* Lines 131-134: execl(exect_path).  On success the target program runs in
\* the child process with the close-on-exec fds closed; on failure the
\* child returns EXIT_CHILD_FAILURE.
ChildExecl ==
  /\ ChildBegins("execl", "execl")
  /\ \/ /\ cPc' = "running"
        /\ cFds' = cFds \ {"whitelist"}
        /\ UNCHANGED <<cStatus, failedStep>>
     \/ ChildReturnFailure("execl")
  /\ UNCHANGED <<cStdio, cCred, parentVars, chanVars, limVars>>

----------------------------------------------------------------------------
(* The target program *)

\* The target calls exit(s) or returns s from main.
TargetExit ==
  /\ cPc = "running"
  /\ \E s \in UserExitStatuses : ChildDies(Exited(s))
  /\ UNCHANGED <<parentVars, chanVars, limVars>>

\* The target is killed by the filter's default action or by a fault.
TargetSignaled ==
  /\ cPc = "running"
  /\ ChildDies(Signaled("SIGSYS"))
  /\ UNCHANGED <<parentVars, chanVars, limVars>>

----------------------------------------------------------------------------
(* Limit enforcement armed by setResourceLimits *)

\* A memory or task-count breach of the target: the terminator fires with
\* that cause (exceeded has a single writer and is written once): the child
\* dies, exceeded records the cause, once is set.
LimitBreach ==
  /\ tPc = "armed"
  /\ cPc = "running"
  /\ tp.terminated = 0
  /\ exceeded = "NO_EXCEED"
  /\ exceeded' \in {"MEM_LIM_EXCEED", "TASK_LIM_EXCEED"}
  /\ KillSigkill
  /\ tp' = [tp EXCEPT !.once = 1]
  /\ tPc' = "fired"
  /\ UNCHANGED <<parentVars, chanVars, limitsSet, cgDirs, tpLive>>

\* The wall-clock terminator fires: unless the parent has published
\* terminated, it kills the child and records the cause; it sets once.
TermFire ==
  /\ tPc = "armed"
  /\ IF tp.terminated = 0
       THEN /\ KillSigkill
            /\ exceeded' = "TIME_LIM_EXCEED"
       ELSE UNCHANGED <<childVars, exceeded>>
  /\ tp' = [tp EXCEPT !.once = 1]
  /\ tPc' = "fired"
  /\ UNCHANGED <<parentVars, chanVars, limitsSet, cgDirs, tpLive>>

\* The terminator finishes its cleanup and sets done.
TermComplete ==
  /\ tPc = "fired"
  /\ tp' = [tp EXCEPT !.done = 1]
  /\ tPc' = "done"
  /\ UNCHANGED <<parentVars, chanVars, exceeded, limitsSet, cgDirs, tpLive,
                 childVars>>

----------------------------------------------------------------------------
(* Specifications *)

Parent ==
  \/ PEntry \/ PClone \/ PReadReady \/ PReadReadyFail
  \/ PSetLimits \/ PSetLimitsFail \/ PWriteGo \/ PWriteGoFail
  \/ PCloseFds \/ PWaitpid \/ PSetTerminated \/ PFreeRes \/ PReadOnce
  \/ PSpin \/ PCancel \/ PFreeTp \/ PClassify

Child ==
  \/ ChildOpenIn \/ ChildOpenOut \/ ChildDupIn \/ ChildDupOut
  \/ ChildCloseIn \/ ChildCloseOut \/ ChildWriteReady \/ ChildReadGo
  \/ ChildCloseC \/ ChildCloseP \/ ChildOpenWl \/ ChildChdir
  \/ ChildChroot \/ ChildSetgid \/ ChildSetuid \/ ChildFilter
  \/ ChildExecl

Target == TargetExit \/ TargetSignaled

Enforcement == LimitBreach \/ TermFire \/ TermComplete

Next == Parent \/ Child \/ Target \/ Enforcement

Spec == Init /\ [][Next]_vars

\* The scheduler runs the parent, the child and the terminator whenever they
\* can move.  Nothing obliges a system call to fail, the target program to
\* end, or a limit to be breached.
ParentProgress ==
  \/ PEntry \/ PClone \/ PReadReady \/ PSetLimits \/ PWriteGo \/ PCloseFds
  \/ PWaitpid \/ PSetTerminated \/ PFreeRes \/ PReadOnce \/ PSpin
  \/ PCancel \/ PFreeTp \/ PClassify

FairSpec ==
  /\ Spec
  /\ WF_vars(ParentProgress)
  /\ WF_vars(Child)
  /\ WF_vars(TermComplete)

\* As FairSpec, and the wall clock of an armed terminator runs out.
TimedFairSpec ==
  /\ FairSpec
  /\ WF_vars(TermFire)

\* The classification alone: the parent stands before line 293 with any
\* wait status of a terminated child and any value of exceeded.
ClassifyStatuses ==
  {Exited(s) : s \in 0..MaxClassifyExit} \cup {Signaled(g) : g \in Signals}

ClassifyInit ==
  /\ pPc = "classify"
  /\ outcome = "none"
  /\ pFds = {}
  /\ stackLive = FALSE
  /\ wstatus \in ClassifyStatuses
  /\ evP = 0
  /\ evC = 0
  /\ goSent = TRUE
  /\ exceeded \in ExceededValues
  /\ limitsSet = TRUE
  /\ cgDirs = TRUE
  /\ tpLive = FALSE
  /\ tp = [terminated |-> 1, once |-> 0, done |-> 0, skip |-> "NULL"]
  /\ tPc = "cancelled"
  /\ cPc = "dead"
  /\ cStatus = wstatus
  /\ cTrace = <<"openIn", "openOut", "dupIn", "dupOut", "closeIn",
                "closeOut", "writeReady", "readGo">>
  /\ failedStep = "none"
  /\ cFds = {}
  /\ cStdio = [in |-> "input_file", out |-> "output_file"]
  /\ cCred = [root |-> "host", cwd |-> "host", gid |-> "privileged",
              uid |-> "privileged", filter |-> FALSE]

ClassifyNext == PClassify

ClassifySpec == ClassifyInit /\ [][ClassifyNext]_vars

----------------------------------------------------------------------------
(* Properties *)

\* The child has begun bootstrap step `step`.
Began(step) == \E i \in 1..Len(cTrace) : cTrace[i] = step

ConfinementSteps == {"chdir", "chroot", "setgid", "setuid", "filter"}

\* Positions of the parent before its write of the go token has returned.
BeforeRelease == {"entry", "clone", "readReady", "setLimits", "writeGo"}

\* C1: the child begins none of chdir, chroot, setgid, setuid and
\* installSysCallBlocker before the parent's setResourceLimits has returned
\* successfully and the parent has written the go token after it.
C1_ConfinementAfterLimits ==
  (\E st \in ConfinementSteps : Began(st)) =>
    /\ limitsSet
    /\ pPc \notin BeforeRelease
    /\ goSent

C1_Witness ==
  /\ Began("chdir")
  /\ limitsSet
  /\ cPc = "chroot"

\* C2: the child issues execl only after a successful read of a go token
\* that the parent wrote; when the read fails or the parent has written no
\* token, execl is never issued and the target never runs.
C2_ExecOnlyAfterGo ==
  /\ (Began("execl") \/ cPc = "running") =>
       (goSent /\ Began("readGo") /\ failedStep # "readGo")
  /\ (failedStep = "readGo" \/ ~goSent) =>
       (~Began("execl") /\ cPc # "running")

C2_Witness ==
  /\ cPc = "running"
  /\ goSent
  /\ evC = 0

\* C3: when the child issues execl it has chroot'ed into the jail and has
\* dropped gid and uid; when chdir, chroot, setgid, setuid or the filter
\* installation fails, execl is never issued and the child exits with
\* EXIT_CHILD_FAILURE.
C3_ConfinedBeforeExec ==
  /\ (Began("execl") \/ cPc = "running") =>
       /\ cCred.root = "jail"
       /\ cCred.gid = "dropped"
       /\ cCred.uid = "dropped"
  /\ failedStep \in ConfinementSteps =>
       /\ ~Began("execl")
       /\ cPc = "dead"
       /\ cStatus = Exited(EXIT_CHILD_FAILURE)

C3_Witness ==
  /\ Began("execl")
  /\ cCred.root = "jail"
  /\ cCred.gid = "dropped"
  /\ cCred.uid = "dropped"

\* The classification table of the specification (section 4.3, step 12).
OutcomeTable ==
  [e \in ExceededValues |->
     [k \in {"exited", "signaled"} |->
        CASE e = "NO_EXCEED" /\ k = "signaled" -> "SB_RUNTIME_ERR"
          [] e = "NO_EXCEED" /\ k = "exited"   -> "SB_OK"
          [] e = "FATAL_ERROR_EXCEED"          -> "SB_FAILURE"
          [] e = "MEM_LIM_EXCEED"              -> "SB_MEM_EXCEED"
          [] e = "TIME_LIM_EXCEED"             -> "SB_TIME_EXCEED"
          [] e = "TASK_LIM_EXCEED"             -> "SB_TASK_EXCEED"
          [] e = "OTHER"                       -> "SB_FAILURE"]]

\* C4: for every wait status (exited with s, or signaled) and every value
\* of exceeded, sandboxExec returns FAILURE when the child exited with the
\* setup-failure status and the entry of the classification table otherwise.
C4_ClassificationTable ==
  pPc = "returned" =>
    outcome =
      IF wstatus.kind = "exited" /\ wstatus.code = EXIT_CHILD_FAILURE
        THEN "SB_FAILURE"
        ELSE OutcomeTable[exceeded][wstatus.kind]

C4_Witness ==
  /\ pPc = "returned"
  /\ wstatus.kind = "signaled"
  /\ exceeded = "TASK_LIM_EXCEED"
  /\ outcome = "SB_TASK_EXCEED"

\* The target program was exec'd and the child ended by a normal exit of it.
TargetExitedNormally ==
  /\ Began("execl")
  /\ failedStep = "none"
  /\ cPc = "dead"
  /\ cStatus.kind = "exited"

\* C5: when the target was exec'd, exits normally with a status in 0..125
\* and exceeded is NO_EXCEED, sandboxExec returns OK, never FAILURE.
C5_UserExitIsOk ==
  ( /\ pPc = "returned"
    /\ TargetExitedNormally
    /\ wstatus = cStatus
    /\ wstatus.code \in 0..125
    /\ exceeded = "NO_EXCEED" ) => outcome = "SB_OK"

EarlyBootSteps ==
  {"openIn", "openOut", "dupIn", "dupOut", "closeIn", "closeOut"}

\* C6: when the child fails in a bootstrap step before it writes the ready
\* token and exits, sandboxExec eventually returns, with FAILURE.
C6_EarlyFailureReturns ==
  (failedStep \in EarlyBootSteps) ~>
    (pPc = "returned" /\ outcome = "SB_FAILURE")

\* C7: on every return path both notification-channel fds are closed in the
\* parent when sandboxExec returns.
C7_ChannelClosedAtReturn ==
  pPc = "returned" => pFds = {}

\* C8: on every return path neither the child stack nor the terminator
\* handle is still allocated when sandboxExec returns.
C8_NoMemoryLiveAtReturn ==
  pPc = "returned" => (~stackLive /\ ~tpLive)

\* C9: when sandboxExec has returned, no per-pid cgroup directory of the
\* child exists.
C9_NoCgroupDirAtReturn ==
  pPc = "returned" => ~cgDirs

\* C10: when the parent returns FAILURE from a failure transition taken
\* after setResourceLimits succeeded (it has not reaped the child), the
\* terminator has been cancelled or has completed: none is left armed.
C10_TerminatorCancelledOnFailure ==
  ( /\ pPc = "returned"
    /\ outcome = "SB_FAILURE"
    /\ limitsSet
    /\ wstatus = NoStatus ) => tPc \in {"cancelled", "done"}

\* waitpid has returned for the child: it is dead and wstatus holds its
\* termination status.
Reaped ==
  /\ cPc = "dead"
  /\ wstatus.kind # "none"
  /\ wstatus = cStatus

LimitOutcomes == {"SB_MEM_EXCEED", "SB_TIME_EXCEED", "SB_TASK_EXCEED"}

AfterTerminatedStore ==
  /\ pPc \in {"freeRes", "readOnce", "spin", "cancel", "freeTp", "classify",
              "crashed", "returned"}
  /\ wstatus.kind # "none"

ClassifiedOutcomes ==
  {"SB_OK", "SB_RUNTIME_ERR"} \cup LimitOutcomes

OwnExit ==
  /\ cPc = "dead"
  /\ \/ cStatus.kind = "exited"
     \/ cStatus.sig = "SIGSYS"

\* C16: once the child has been released, unless it ends on its own account,
\* sandboxExec eventually returns an Outcome.
C16_StuckChildReturns ==
  goSent ~> (OwnExit \/ (pPc = "returned" /\ outcome # "none"))

\* C17: terminated is 1 only after waitpid has returned; the parent reads
\* once, and calls the cancel entry, only with terminated = 1; the terminator
\* is never cancelled before waitpid has returned.
C17_TerminatedAfterWaitpid ==
  /\ tp.terminated = 1 => Reaped
  /\ pPc \in {"readOnce", "spin", "cancel", "freeTp", "classify"} =>
       tp.terminated = 1
  /\ (tPc = "cancelled" \/ tp.skip = "NULL") =>
       (tp.terminated = 1 /\ Reaped)

C17_Witness ==
  /\ tPc = "cancelled"
  /\ tp.terminated = 1
  /\ tp.skip = "NULL"

\* Position of the first occurrence of `step` in the child's trace, 0 if none.
Pos(step) ==
  IF Began(step)
    THEN CHOOSE i \in 1..Len(cTrace) :
           /\ cTrace[i] = step
           /\ \A j \in 1..(i - 1) : cTrace[j] # step
    ELSE 0

\* Step b is begun only after step a was begun.
Precedes(a, b) == Began(b) => (Began(a) /\ Pos(a) < Pos(b))

\* C18: the child runs chroot, setgid, setuid, installSysCallBlocker, execl
\* in this order; the uid is never dropped before the gid; the filter is
\* attempted only with chroot and both credential drops done.
C18_PrivilegedStepOrder ==
  /\ Precedes("chroot", "setgid")
  /\ Precedes("setgid", "setuid")
  /\ Precedes("setuid", "filter")
  /\ Precedes("filter", "execl")
  /\ cCred.uid = "dropped" => cCred.gid = "dropped"
  /\ (Began("filter") \/ cCred.filter) =>
       /\ cCred.root = "jail"
       /\ cCred.gid = "dropped"
       /\ cCred.uid = "dropped"

C18_Witness ==
  /\ cPc = "execl"
  /\ cCred.filter
  /\ Pos("setgid") < Pos("setuid")

OpenSteps == {"openIn", "openOut", "openWl"}

\* C19: the child opens the input file, the output file and the whitelist
\* before it calls chroot and opens nothing after it; the input and output
\* opens precede the ready token.
C19_OpensBeforeChroot ==
  /\ \A i, j \in 1..Len(cTrace) :
       (cTrace[i] = "chroot" /\ cTrace[j] \in OpenSteps) => j < i
  /\ \A st \in OpenSteps : Precedes(st, "chroot")
  /\ Precedes("openIn", "writeReady")
  /\ Precedes("openOut", "writeReady")

C19_Witness ==
  /\ cCred.root = "jail"
  /\ Pos("openWl") > Pos("writeReady")
  /\ Pos("openWl") < Pos("chroot")

BootstrapFds == {"notify_p", "notify_c", "in", "out"}

\* C20: when the child issues execl, its copies of both channel fds and the
\* original input/output fds are closed, fds 0 and 1 are the input and
\* output files and the whitelist fd is consumed; when one of the closes
\* fails, execl is never issued.
C20_FdsClosedAtExec ==
  /\ cPc \in {"execl", "running"} =>
       /\ cFds \cap BootstrapFds = {}
       /\ "whitelist" \notin cFds
       /\ cStdio = [in |-> "input_file", out |-> "output_file"]
  /\ failedStep \in {"closeIn", "closeOut", "closeC", "closeP"} =>
       ~Began("execl")

C20_Witness ==
  /\ cPc = "running"
  /\ cFds = {}
  /\ cStdio.in = "input_file"

====
